---- MODULE Spec2Model ----
(***************************************************************************)
(* A model of image-resize (src/index.mjs): the batch / URL driver, the    *)
(* per-file pipeline processOne (background removal with the optional      *)
(* high-quality tier and alpha smoothing, alpha analysis, crop, placement  *)
(* on the square canvas, write), and the arithmetic the pipeline does on   *)
(* JavaScript Numbers.                                                     *)
(*                                                                         *)
(* JavaScript Numbers are IEEE-754 binary64 values.  They are modelled     *)
(* exactly: a finite Number is [neg, m, e] standing for (+/-) m * 2^e with *)
(* m an arbitrary-precision natural (a little-endian sequence of base-2^15 *)
(* limbs, because TLC's integers are 32 bits wide), every operation        *)
(* computes the exact result and rounds it to 53 significant bits, ties to *)
(* even.  Exponent overflow, subnormals, NaN and the sign of zero are out  *)
(* of the model: no value of the runs below comes near them.               *)
(***************************************************************************)
EXTENDS Integers, Sequences, FiniteSets, TLC

(***************************************************************************)
(* Arbitrary-precision naturals                                            *)
(***************************************************************************)
LimbBits == 15
LimbBase == 2 ^ LimbBits

\* TLC evaluates operator arguments lazily; Strict(v, e) evaluates v first, so
\* that a long fold does not build a chain of suspended accumulators.
Strict(v, e) == IF v = v THEN e ELSE e

RECURSIVE BNorm(_)
BNorm(a) ==
  IF a = <<>> THEN a
  ELSE IF a[Len(a)] = 0 THEN BNorm(SubSeq(a, 1, Len(a) - 1))
  ELSE a

RECURSIVE BFromInt(_)
BFromInt(n) ==
  IF n = 0 THEN <<>> ELSE <<n % LimbBase>> \o BFromInt(n \div LimbBase)

\* The value of a, which must be below 2^31 (TLC reports an overflow otherwise).
RECURSIVE BToInt(_)
BToInt(a) ==
  IF a = <<>> THEN 0 ELSE a[1] + LimbBase * BToInt(Tail(a))

BLimb(a, i) == IF i <= Len(a) THEN a[i] ELSE 0

RECURSIVE BAddFrom(_, _, _, _)
BAddFrom(a, b, i, c) ==
  IF i > Len(a) /\ i > Len(b)
  THEN (IF c = 0 THEN <<>> ELSE <<c>>)
  ELSE <<(BLimb(a, i) + BLimb(b, i) + c) % LimbBase>>
       \o BAddFrom(a, b, i + 1, (BLimb(a, i) + BLimb(b, i) + c) \div LimbBase)

BAdd(a, b) == BAddFrom(a, b, 1, 0)

RECURSIVE BSubFrom(_, _, _, _)
BSubFrom(a, b, i, br) ==
  IF i > Len(a) THEN <<>>
  ELSE <<(BLimb(a, i) - BLimb(b, i) - br + LimbBase) % LimbBase>>
       \o BSubFrom(a, b, i + 1, IF BLimb(a, i) - BLimb(b, i) - br < 0 THEN 1 ELSE 0)

\* a - b for a >= b
BSub(a, b) == BNorm(BSubFrom(a, b, 1, 0))

RECURSIVE BCmpFrom(_, _, _)
BCmpFrom(a, b, i) ==
  IF i = 0 THEN 0
  ELSE IF a[i] < b[i] THEN -1
  ELSE IF a[i] > b[i] THEN 1
  ELSE BCmpFrom(a, b, i - 1)

\* -1, 0 or 1 as a < b, a = b or a > b
BCmp(a, b) ==
  IF Len(a) < Len(b) THEN -1
  ELSE IF Len(a) > Len(b) THEN 1
  ELSE BCmpFrom(a, b, Len(a))

RECURSIVE BMulSmallFrom(_, _, _, _)
BMulSmallFrom(a, k, i, c) ==
  IF i > Len(a)
  THEN (IF c = 0 THEN <<>> ELSE <<c>>)
  ELSE <<(a[i] * k + c) % LimbBase>>
       \o BMulSmallFrom(a, k, i + 1, (a[i] * k + c) \div LimbBase)

\* a * k for 0 <= k < LimbBase
BMulSmall(a, k) == IF k = 0 THEN <<>> ELSE BMulSmallFrom(a, k, 1, 0)

BShiftLimbs(a, n) == IF a = <<>> THEN a ELSE [i \in 1..n |-> 0] \o a

RECURSIVE BMulFrom(_, _, _)
BMulFrom(a, b, j) ==
  IF j > Len(b) THEN <<>>
  ELSE BAdd(BShiftLimbs(BMulSmall(a, b[j]), j - 1), BMulFrom(a, b, j + 1))

BMul(a, b) == BMulFrom(a, b, 1)

\* a * 2^n
BShl(a, n) ==
  BShiftLimbs(BMulSmall(a, 2 ^ (n % LimbBits)), n \div LimbBits)

\* floor(a / 2^n)
BShr(a, n) ==
  LET d == n \div LimbBits
      r == n % LimbBits
  IN IF d >= Len(a) THEN <<>>
     ELSE BNorm([i \in 1..(Len(a) - d) |->
                   (a[i + d] \div (2 ^ r))
                   + (BLimb(a, i + d + 1) % (2 ^ r)) * (2 ^ (LimbBits - r))])

RECURSIVE BitLenSmall(_)
BitLenSmall(k) == IF k = 0 THEN 0 ELSE 1 + BitLenSmall(k \div 2)

\* the number of bits of a: 0 for 0, else floor(log2 a) + 1
BBitLen(a) ==
  IF a = <<>> THEN 0 ELSE LimbBits * (Len(a) - 1) + BitLenSmall(a[Len(a)])

\* bit i of a (bit 0 is the lowest)
BBit(a, i) == (BLimb(a, (i \div LimbBits) + 1) \div (2 ^ (i % LimbBits))) % 2

\* whether the n lowest bits of a are all zero
BLowZero(a, n) == BShl(BShr(a, n), n) = a

RECURSIVE BTrailingZeros(_, _)
BTrailingZeros(a, i) ==
  IF a = <<>> THEN 0
  ELSE IF BBit(a, i) = 1 THEN i
  ELSE BTrailingZeros(a, i + 1)

\* One step of binary long division: bit i of a is brought down into the
\* remainder s.r and the next quotient bit is appended to s.q.
DivStep(a, b, i, s) ==
  LET t == BAdd(BShl(s.r, 1), BFromInt(BBit(a, i)))
  IN IF BCmp(t, b) >= 0
     THEN [q |-> BAdd(BShl(s.q, 1), <<1>>), r |-> BSub(t, b)]
     ELSE [q |-> BShl(s.q, 1), r |-> t]

\* The steps for the bits hi, hi - 1, ..., lo of a, in that order (the range is
\* halved only to keep the evaluation stack shallow).
RECURSIVE DivBits(_, _, _, _, _)
DivBits(a, b, hi, lo, s) ==
  Strict(s,
    IF hi < lo THEN s
    ELSE IF hi = lo THEN DivStep(a, b, hi, s)
    ELSE DivBits(a, b, ((hi + lo + 1) \div 2) - 1, lo,
                 DivBits(a, b, hi, (hi + lo + 1) \div 2, s)))

\* Division by a one-limb divisor k, limb i of a and those below it: rem is the
\* remainder left by the limbs above.
RECURSIVE DivSmallFrom(_, _, _, _)
DivSmallFrom(a, k, i, rem) ==
  IF i = 0 THEN [q |-> <<>>, r |-> rem]
  ELSE LET below == DivSmallFrom(a, k, i - 1, (rem * LimbBase + a[i]) % k)
       IN [q |-> below.q \o <<(rem * LimbBase + a[i]) \div k>>, r |-> below.r]

\* [q |-> floor(a / b), r |-> a mod b] for b > 0
BDivMod(a, b) ==
  IF Len(b) = 1
  THEN LET d == DivSmallFrom(a, b[1], Len(a), 0)
       IN [q |-> BNorm(d.q), r |-> BFromInt(d.r)]
  ELSE DivBits(a, b, BBitLen(a) - 1, 0, [q |-> <<>>, r |-> <<>>])

(***************************************************************************)
(* JavaScript Numbers                                                      *)
(***************************************************************************)
Precision == 53

Zero == [neg |-> FALSE, m |-> <<>>, e |-> 0]

\* The one representation of (+/-) m * 2^e: m odd, or Zero.
Canon(neg, m, e) ==
  LET tz == BTrailingZeros(m, 0)
  IN IF m = <<>> THEN Zero
     ELSE IF tz = 0 THEN [neg |-> neg, m |-> m, e |-> e]
     ELSE [neg |-> neg, m |-> BShr(m, tz), e |-> e + tz]

\* The Number nearest to (+/-) (m + s) * 2^e, where 0 <= s < 1 and sticky says
\* whether s > 0: round to nearest, ties to even.
Round(neg, m, e, sticky) ==
  LET drop == BBitLen(m) - Precision
  IN IF drop <= 0 THEN Canon(neg, m, e)
     ELSE LET kept == BShr(m, drop)
              rest == BSub(m, BShl(kept, drop))
              half == BCmp(rest, BShl(<<1>>, drop - 1))
              up == \/ half > 0
                    \/ half = 0 /\ (sticky \/ BBit(kept, 0) = 1)
          IN Canon(neg, IF up THEN BAdd(kept, <<1>>) ELSE kept, e + drop)

\* The Number of an integer (every integer of the model is below 2^53).
FromInt(n) ==
  IF n < 0 THEN Canon(TRUE, BFromInt(-n), 0) ELSE Canon(FALSE, BFromInt(n), 0)

FNeg(a) == IF a.m = <<>> THEN a ELSE [a EXCEPT !.neg = ~a.neg]

\* a.m scaled to the exponent e <= a.e
Aligned(a, e) == BShl(a.m, a.e - e)

MinExp(a, b) == IF a.e < b.e THEN a.e ELSE b.e

\* -1, 0 or 1 as a < b, a = b or a > b
FCmp(a, b) ==
  IF a.neg /\ ~b.neg THEN -1
  ELSE IF ~a.neg /\ b.neg THEN 1
  ELSE IF a.m = <<>> /\ b.m = <<>> THEN 0
  ELSE IF a.neg
       THEN BCmp(Aligned(b, MinExp(a, b)), Aligned(a, MinExp(a, b)))
       ELSE BCmp(Aligned(a, MinExp(a, b)), Aligned(b, MinExp(a, b)))

FLe(a, b) == FCmp(a, b) <= 0
FLt(a, b) == FCmp(a, b) < 0

\* a + b, exact (not rounded)
ExactAdd(a, b) ==
  LET e == MinExp(a, b)
      x == Aligned(a, e)
      y == Aligned(b, e)
  IN IF a.neg = b.neg THEN Canon(a.neg, BAdd(x, y), e)
     ELSE IF BCmp(x, y) >= 0 THEN Canon(a.neg, BSub(x, y), e)
     ELSE Canon(b.neg, BSub(y, x), e)

Rounded(a) == Round(a.neg, a.m, a.e, FALSE)

\* the JavaScript operators +, -, *, / on Numbers
FAdd(a, b) == Rounded(ExactAdd(a, b))
FSub(a, b) == Rounded(ExactAdd(a, FNeg(b)))
FMul(a, b) == Round(a.neg # b.neg, BMul(a.m, b.m), a.e + b.e, FALSE)

\* a / b for b # 0: the quotient to at least Precision + 2 bits, the remainder
\* as the sticky bit.
FDiv(a, b) ==
  LET want == Precision + 2 + BBitLen(b.m) - BBitLen(a.m)
      k == IF want > 0 THEN want ELSE 0
      d == BDivMod(BShl(a.m, k), b.m)
  IN IF a.m = <<>> THEN Zero
     ELSE Round(a.neg # b.neg, d.q, a.e - b.e - k, d.r # <<>>)

\* Math.floor, as an integer
Floor(a) ==
  IF a.e >= 0 THEN (IF a.neg THEN -1 ELSE 1) * BToInt(BShl(a.m, a.e))
  ELSE LET q == BToInt(BShr(a.m, -a.e))
       IN IF a.neg THEN -(q + 1) ELSE q

\* Math.round, as an integer: the nearest integer, a tie to the larger one,
\* which is floor(a + 1/2) computed exactly.
MathRound(a) == Floor(ExactAdd(a, [neg |-> FALSE, m |-> <<1>>, e |-> -1]))

\* Math.min, Math.max on Numbers
MathMin(a, b) == IF FLe(a, b) THEN a ELSE b
MathMax(a, b) == IF FLe(a, b) THEN b ELSE a

\* parseFloat of the decimal literal num / 10^digits: the nearest Number.
ParseFloat(num, digits) == FDiv(FromInt(num), FromInt(10 ^ digits))

(***************************************************************************)
(* Configuration (the environment, read once at startup)                   *)
(***************************************************************************)
DefaultSize == 2000
DefaultPad == 5          \* PAD, in hundredths: "0.05"
DefaultVBias == 0        \* VBIAS, in hundredths: "-0.00"
DefaultAThresh == 16
DefaultSmoothThresh == 180

\* A configuration: what the process read from argv and the environment.  PAD
\* and VBIAS are kept as the decimal strings they are given as, in hundredths.
Config(mode, size, pad, vbias, hq) ==
  [mode |-> mode, SIZE |-> size, PAD |-> pad, VBIAS |-> vbias,
   ATHRESH |-> DefaultAThresh, HQ |-> hq, SMOOTH_THRESH |-> DefaultSmoothThresh]

PADDING_PCT(c) == ParseFloat(c.PAD, 2)
V_BIAS_PCT(c) == ParseFloat(c.VBIAS, 2)

(***************************************************************************)
(* Images.  An image is [channels, w, h, pw, ph, pat]: a pw x ph pattern   *)
(* of alpha values (row-major) drawn at w x h pixels, each pattern cell    *)
(* covering a block of pixels; w = pw and h = ph is a plain pixel grid.    *)
(* Only the alpha channel is modelled.                                     *)
(***************************************************************************)
Image(w, h, pw, ph, pat) ==
  [channels |-> 4, w |-> w, h |-> h, pw |-> pw, ph |-> ph, pat |-> pat]

\* an image without an alpha channel (RGB)
OpaqueRGB(w, h) ==
  [channels |-> 3, w |-> w, h |-> h, pw |-> 1, ph |-> 1, pat |-> <<255>>]

\* the alpha of pixel (x, y)
AlphaAt(img, x, y) ==
  img.pat[((y * img.ph) \div img.h) * img.pw + ((x * img.pw) \div img.w) + 1]

\* a[i] of the raw alpha buffer, i = y * w + x
BufAt(img, i) == AlphaAt(img, i % img.w, i \div img.w)

\* sharp(buf).ensureAlpha(): an image without alpha gets a fully opaque one
ensureAlpha(img) ==
  IF img.channels = 3 THEN [img EXCEPT !.channels = 4] ELSE img

Null == [null |-> TRUE]

(***************************************************************************)
(* findAlphaBBoxAndCentroid                                                *)
(***************************************************************************)
\* The running state of the scan.  The sums are non-negative integers far below
\* 2^53, on which Number addition is exact: they are kept as naturals.
ScanStart(img) ==
  [x0 |-> img.w, y0 |-> img.h, x1 |-> -1, y1 |-> -1,
   sumA |-> <<>>, sumX |-> <<>>, sumY |-> <<>>]

\* what the inner loop does with a foreground pixel (x, y) of this alpha
ScanUpdate(s, alpha, x, y) ==
  [x0 |-> IF x < s.x0 THEN x ELSE s.x0,
   y0 |-> IF y < s.y0 THEN y ELSE s.y0,
   x1 |-> IF x > s.x1 THEN x ELSE s.x1,
   y1 |-> IF y > s.y1 THEN y ELSE s.y1,
   sumA |-> BAdd(s.sumA, BFromInt(alpha)),
   sumX |-> BAdd(s.sumX, BFromInt(alpha * x)),
   sumY |-> BAdd(s.sumY, BFromInt(alpha * y))]

\* a threshold test that lets the threshold value itself through
IsForegroundInclusive(alpha, thresh) == alpha >= thresh

\* if (alpha > ALPHA_THRESH)
IsForeground(alpha, thresh) == alpha > thresh

\* the inner loop's body: const alpha = a[row + x]; if (alpha > ALPHA_THRESH) ...
ScanPixel(s, img, thresh, x, y) ==
  LET alpha == BufAt(img, y * img.w + x)
  IN IF IsForeground(alpha, thresh) THEN ScanUpdate(s, alpha, x, y) ELSE s

\* the inner loop over x = lo, ..., hi - 1 of row y, in that order (the range
\* is halved only to keep the evaluation stack shallow)
RECURSIVE ScanCols(_, _, _, _, _, _)
ScanCols(s, img, thresh, y, lo, hi) ==
  Strict(s,
    IF hi <= lo THEN s
    ELSE IF hi = lo + 1 THEN ScanPixel(s, img, thresh, lo, y)
    ELSE ScanCols(ScanCols(s, img, thresh, y, lo, (lo + hi) \div 2),
                  img, thresh, y, (lo + hi) \div 2, hi))

ScanRowOf(s, img, thresh, y) == ScanCols(s, img, thresh, y, 0, img.w)

\* a natural as a Number
NumOf(b) == Round(FALSE, b, 0, FALSE)

\* what the function returns once the loops are over
ScanResult(s, img) ==
  IF s.x1 < s.x0 \/ s.y1 < s.y0 THEN Null
  ELSE [bbox |-> <<s.x0, s.y0, s.x1 + 1, s.y1 + 1>>,
        cx |-> FDiv(NumOf(s.sumX), NumOf(s.sumA)),
        cy |-> FDiv(NumOf(s.sumY), NumOf(s.sumA)),
        w |-> img.w, h |-> img.h]

(***************************************************************************)
(* smoothAlpha: blur, then threshold.  The blur is sharp's; of its result  *)
(* the model keeps only that a blurred value lies between the least and    *)
(* the greatest alpha of the image.  threshold(t) maps a value >= t to 255 *)
(* and any other to 0.                                                     *)
(***************************************************************************)
AlphaRange(img) == {img.pat[i] : i \in 1..Len(img.pat)}

MaskValues(img, t) ==
  {v \in {0, 255} :
     \E b \in AlphaRange(img) : (v = 255) <=> (b >= t)}

smoothAlpha(img, t) ==
  {[img EXCEPT !.pat = m] : m \in [1..Len(img.pat) -> MaskValues(img, t)]}

(***************************************************************************)
(* processOne: the crop and the crop-local centroid                        *)
(***************************************************************************)
CropOf(result, img) ==
  IF result = Null THEN [w |-> img.w, h |-> img.h]
  ELSE [w |-> result.bbox[3] - result.bbox[1],
        h |-> result.bbox[4] - result.bbox[2]]

\* a centroid left in the coordinates of the uncropped image
CentroidOfUncropped(result) ==
  IF result = Null THEN Null ELSE [cx |-> result.cx, cy |-> result.cy]

CentroidOf(result) ==
  IF result = Null THEN Null
  ELSE [cx |-> FSub(result.cx, FromInt(result.bbox[1])),
        cy |-> FSub(result.cy, FromInt(result.bbox[2]))]

(***************************************************************************)
(* toSquareWebP                                                            *)
(***************************************************************************)
IntMax(a, b) == IF a >= b THEN a ELSE b

\* const maxContent = SIZE * (1 - padPct * 2)
MaxContent(c, padPct) ==
  FMul(FromInt(c.SIZE), FSub(FromInt(1), FMul(padPct, FromInt(2))))

\* const scale = Math.min(maxContent / meta.width, maxContent / meta.height)
Scale(maxContent, meta) ==
  MathMin(FDiv(maxContent, FromInt(meta.w)), FDiv(maxContent, FromInt(meta.h)))

\* resizing that rounds to nearest instead of down
ResizedToNearest(side, scale) == IntMax(1, MathRound(FMul(FromInt(side), scale)))

\* Math.max(1, Math.floor(side * scale))
Resized(side, scale) == IntMax(1, Floor(FMul(FromInt(side), scale)))

\* const by = Math.round(V_BIAS_PCT * SIZE)
BiasY(c) == MathRound(FMul(V_BIAS_PCT(c), FromInt(c.SIZE)))

\* SIZE / 2
Half(c) == FDiv(FromInt(c.SIZE), FromInt(2))

\* the offsets of the centroid branch
CentroidLeft(c, centroid, scale) ==
  MathRound(FSub(Half(c), FMul(centroid.cx, scale)))

CentroidTop(c, centroid, scale, by) ==
  MathRound(FAdd(FSub(Half(c), FMul(centroid.cy, scale)), FromInt(by)))

\* the offsets of the other branch
GeometricLeft(c, nw) ==
  IntMax(0, Floor(FDiv(FromInt(c.SIZE - nw), FromInt(2))))

\* the vertical offset without Math.max(0, ...)
GeometricTopUnclamped(c, nh, by) ==
  Floor(FAdd(FDiv(FromInt(c.SIZE - nh), FromInt(2)), FromInt(by)))

GeometricTop(c, nh, by) ==
  IntMax(0, Floor(FAdd(FDiv(FromInt(c.SIZE - nh), FromInt(2)), FromInt(by))))

\* What toSquareWebP computes for an image of meta.w x meta.h: the resized
\* dimensions and the offsets at which it composites them on the canvas.
toSquareWebP(c, meta, padPct, centroid) ==
  LET maxContent == MaxContent(c, padPct)
      scale == Scale(maxContent, meta)
      nw == Resized(meta.w, scale)
      nh == Resized(meta.h, scale)
      by == BiasY(c)
  IN [maxContent |-> maxContent,
      scale |-> scale,
      nw |-> nw,
      nh |-> nh,
      branch |-> IF centroid # Null THEN "centroid" ELSE "geometric",
      left |-> IF centroid # Null THEN CentroidLeft(c, centroid, scale)
               ELSE GeometricLeft(c, nw),
      top |-> IF centroid # Null THEN CentroidTop(c, centroid, scale, by)
              ELSE GeometricTop(c, nh, by),
      canvas |-> c.SIZE]

(***************************************************************************)
(* The program state                                                       *)
(***************************************************************************)
VARIABLES
  cfg,       \* the configuration
  proc,      \* the driver: "download", "walk", "done", "exit1", "crashed"
  listing,   \* the directory entries the walk has yet to visit, in its order
             \* (in URL mode: the one remote resource)
  n,         \* the driver's count of processed files
  log,       \* the "source -> destination" lines printed so far
  out,       \* the output directory: file name |-> the input it was made from
  pc,        \* where processOne stands for the current file
  file,      \* the current file
  noBg,      \* processOne's noBg, the image removeBgToRGBA is building/returned
  y,         \* findAlphaBBoxAndCentroid: the row the outer loop is at
  acc,       \* findAlphaBBoxAndCentroid: x0, y0, x1, y1, sumA, sumX, sumY
  result,    \* processOne's result
  crop,      \* the dimensions of processOne's crop
  centroid,  \* processOne's centroid
  placed,    \* what toSquareWebP computed
  stages     \* the stages run so far for the current file, in order

driver == <<proc, listing, n, log, out>>
scan == <<y, acc>>
locals == <<file, noBg, y, acc, result, crop, centroid, placed>>
vars == <<cfg, proc, listing, n, log, out, pc, file, noBg, y, acc, result,
          crop, centroid, placed, stages>>

\* A directory entry (or remote resource): its path, what each tier of
\* removeBackground does with it, and the image a tier that succeeds returns.
Entry(dir, base, ext, hq, fast, img) ==
  [dir |-> dir, base |-> base, ext |-> ext, hq |-> hq, fast |-> fast, img |-> img]

PathOf(f) == <<f.dir, f.base, f.ext>>

\* /\.(jpe?g|png|webp|tiff?)$/i, on extensions written in lower case
ImageExts == {"jpg", "jpeg", "png", "webp", "tif", "tiff"}
MatchesExt(f) == f.ext \in ImageExts

\* path.basename(file, path.extname(file)) + ".webp"
OutName(f) == <<f.base, "webp">>

Idle ==
  /\ pc = "idle" /\ file = Null /\ noBg = Null /\ y = 0 /\ acc = Null
  /\ result = Null /\ crop = Null /\ centroid = Null /\ placed = Null
  /\ stages = <<>>

(***************************************************************************)
(* The driver                                                              *)
(***************************************************************************)
\* downloadToTemp succeeds: the resource is now a local file under downloaded/
DownloadOk ==
  /\ proc = "download"
  /\ proc' = "url"
  /\ file' = [Head(listing) EXCEPT !.dir = "downloaded"]
  /\ listing' = Tail(listing)
  /\ pc' = "removeBg"
  /\ UNCHANGED <<cfg, n, log, out, noBg, y, acc, result, crop, centroid,
                 placed, stages>>

\* fetch fails or answers a non-success status: caught, logged, exit(1)
DownloadFails ==
  /\ proc = "download"
  /\ proc' = "exit1"
  /\ UNCHANGED <<cfg, listing, n, log, out, pc, stages>>
  /\ UNCHANGED locals

\* walk yields the next entry, an image file
WalkYield ==
  /\ proc = "walk" /\ pc = "idle"
  /\ listing # <<>> /\ MatchesExt(Head(listing))
  /\ file' = Head(listing)
  /\ listing' = Tail(listing)
  /\ pc' = "removeBg"
  /\ UNCHANGED <<cfg, proc, n, log, out, noBg, y, acc, result, crop, centroid,
                 placed, stages>>

\* walk passes over an entry that is no image file
WalkSkip ==
  /\ proc = "walk" /\ pc = "idle"
  /\ listing # <<>> /\ ~MatchesExt(Head(listing))
  /\ listing' = Tail(listing)
  /\ UNCHANGED <<cfg, proc, n, log, out, pc, stages>>
  /\ UNCHANGED locals

\* the walk is over: "Done: n files"
WalkEnd ==
  /\ proc = "walk" /\ pc = "idle"
  /\ listing = <<>>
  /\ proc' = "done"
  /\ UNCHANGED <<cfg, listing, n, log, out, pc, stages>>
  /\ UNCHANGED locals

(***************************************************************************)
(* removeBgToRGBA                                                          *)
(***************************************************************************)
\* the tier of the first removeBackground call
FirstTier(c) == IF c.HQ THEN "hq" ELSE "fast"

\* a high-quality call whose exception is not caught
OnHQFailureUncaught == "throw"

\* where control goes when the high-quality call throws: the catch block
OnHQFailure == "fallback"

\* a pipeline that never smooths
NeedsSmoothingNever(c) == FALSE

\* if (HQ) rgba = await smoothAlpha(rgba)
NeedsSmoothing(c) == c.HQ

\* removeBackground returned a blob: it is normalized to RGBA, then smoothed in
\* high-quality mode; otherwise removeBgToRGBA returns and processOne starts
\* findAlphaBBoxAndCentroid on the image.
Removed ==
  /\ noBg' = ensureAlpha(file.img)
  /\ stages' = Append(stages, "removeBackground")
  /\ IF NeedsSmoothing(cfg)
     THEN pc' = "smooth" /\ UNCHANGED scan
     ELSE pc' = "scan" /\ y' = 0 /\ acc' = ScanStart(ensureAlpha(file.img))
  /\ UNCHANGED <<cfg, file, result, crop, centroid, placed>>
  /\ UNCHANGED driver

RemoveBgReturns ==
  /\ pc = "removeBg"
  /\ file[FirstTier(cfg)] = "ok"
  /\ Removed

\* the high-quality call throws
RemoveBgHQThrows ==
  /\ pc = "removeBg"
  /\ cfg.HQ /\ file.hq = "fail"
  /\ pc' = OnHQFailure
  /\ UNCHANGED <<cfg, stages>>
  /\ UNCHANGED locals
  /\ UNCHANGED driver

\* the default-tier call of the catch block returns
FallbackReturns ==
  /\ pc = "fallback"
  /\ file.fast = "ok"
  /\ Removed

\* processOne rejects: the default-tier call threw (or the high-quality failure
\* was not caught).  URL mode catches it, logs and exits 1; the batch loop does
\* not catch it, and the rejection ends the process.
ProcessOneRejects ==
  /\ \/ pc = "removeBg" /\ ~cfg.HQ /\ file.fast = "fail"
     \/ pc = "fallback" /\ file.fast = "fail"
     \/ pc = "throw"
  /\ pc' = "dead"
  /\ proc' = IF cfg.mode = "url" THEN "exit1" ELSE "crashed"
  /\ UNCHANGED <<cfg, listing, n, log, out, stages>>
  /\ UNCHANGED locals

Smooth ==
  /\ pc = "smooth"
  /\ \E img \in smoothAlpha(noBg, cfg.SMOOTH_THRESH) :
       /\ noBg' = img
       /\ acc' = ScanStart(img)
  /\ y' = 0
  /\ pc' = "scan"
  /\ stages' = Append(stages, "smoothAlpha")
  /\ UNCHANGED <<cfg, file, result, crop, centroid, placed>>
  /\ UNCHANGED driver

(***************************************************************************)
(* processOne                                                              *)
(***************************************************************************)
\* one pass of the outer loop of findAlphaBBoxAndCentroid: row y
ScanRow ==
  /\ pc = "scan" /\ y < noBg.h
  /\ acc' = ScanRowOf(acc, noBg, cfg.ATHRESH, y)
  /\ y' = y + 1
  /\ UNCHANGED <<cfg, pc, file, noBg, result, crop, centroid, placed, stages>>
  /\ UNCHANGED driver

\* the loops are over: findAlphaBBoxAndCentroid returns
AnalyzeReturns ==
  /\ pc = "scan" /\ y = noBg.h
  /\ result' = ScanResult(acc, noBg)
  /\ pc' = "crop"
  /\ stages' = Append(stages, "findAlphaBBoxAndCentroid")
  /\ UNCHANGED <<cfg, file, noBg, y, acc, crop, centroid, placed>>
  /\ UNCHANGED driver

Crop ==
  /\ pc = "crop"
  /\ crop' = CropOf(result, noBg)
  /\ centroid' = CentroidOf(result)
  /\ pc' = "square"
  /\ stages' = Append(stages, "crop")
  /\ UNCHANGED <<cfg, file, noBg, y, acc, result, placed>>
  /\ UNCHANGED driver

Square ==
  /\ pc = "square"
  /\ placed' = toSquareWebP(cfg, crop, PADDING_PCT(cfg), centroid)
  /\ pc' = "write"
  /\ stages' = stages \o <<"composite", "encode">>
  /\ UNCHANGED <<cfg, file, noBg, y, acc, result, crop, centroid>>
  /\ UNCHANGED driver

\* writeFile, processOne returns, and the driver logs the line and counts the
\* file; processOne's locals are gone.
Write ==
  /\ pc = "write"
  /\ out' = [k \in DOMAIN out \cup {OutName(file)} |->
               IF k = OutName(file) THEN PathOf(file) ELSE out[k]]
  /\ log' = Append(log, <<PathOf(file), OutName(file)>>)
  /\ n' = IF cfg.mode = "url" THEN 1 ELSE n + 1
  /\ proc' = IF cfg.mode = "url" THEN "done" ELSE proc
  /\ pc' = "idle" /\ file' = Null /\ noBg' = Null /\ y' = 0 /\ acc' = Null
  /\ result' = Null /\ crop' = Null /\ centroid' = Null /\ placed' = Null
  /\ stages' = <<>>
  /\ UNCHANGED <<cfg, listing>>

(***************************************************************************)
(* Specifications                                                          *)
(***************************************************************************)
MaxFiles == 3       \* the longest directory listing
MaxW == 3           \* the widest pixel grid
MaxH == 2           \* the tallest pixel grid
MaxFg == 2          \* the most pixels of a grid that are not fully transparent
MaxCrop == 22       \* the largest side of a crop handed to toSquareWebP alone

Default == Config("dir", DefaultSize, DefaultPad, DefaultVBias, FALSE)

\* The whole program on a small directory (or one URL).
Universe ==
  { Entry("in", "a", "jpg", "ok", "ok", Image(2, 1, 2, 1, <<255, 17>>)),
    Entry("in", "a", "png", "fail", "ok", Image(1, 2, 1, 2, <<0, 200>>)),
    Entry("in", "b", "jpg", "fail", "fail", Image(1, 1, 1, 1, <<0>>)),
    Entry("in", "notes", "txt", "fail", "fail", Image(1, 1, 1, 1, <<0>>)),
    Entry("in/sub", "a", "jpg", "ok", "ok", Image(1, 1, 1, 1, <<0>>)) }

Listings ==
  {l \in UNION {[1..k -> Universe] : k \in 0..MaxFiles} :
     \A i, j \in DOMAIN l : i # j => l[i] # l[j]}

InitLocals ==
  /\ n = 0 /\ log = <<>> /\ out = <<>>
  /\ Idle

Init ==
  /\ \E mode \in {"dir", "url"}, hq \in BOOLEAN :
       cfg = Config(mode, DefaultSize, DefaultPad, DefaultVBias, hq)
  /\ listing \in Listings
  /\ cfg.mode = "url" => Len(listing) = 1
  /\ proc = IF cfg.mode = "url" THEN "download" ELSE "walk"
  /\ InitLocals

Next ==
  \/ DownloadOk \/ DownloadFails
  \/ WalkYield \/ WalkSkip \/ WalkEnd
  \/ RemoveBgReturns \/ RemoveBgHQThrows \/ FallbackReturns
  \/ ProcessOneRejects \/ Smooth
  \/ ScanRow \/ AnalyzeReturns \/ Crop \/ Square \/ Write

Spec == Init /\ [][Next]_vars

\* processOne on one file of a directory, for every small pixel grid.
AlphaLevels == {0, DefaultAThresh, DefaultAThresh + 1, 255}

\* the patterns of k pixels of which at most MaxFg are not fully transparent
Patterns(k) ==
  UNION {{[i \in 1..k |-> IF i \in S THEN f[i] ELSE 0] :
            f \in [S -> AlphaLevels \ {0}]} :
           S \in {T \in SUBSET (1..k) : Cardinality(T) <= MaxFg}}

Grids ==
  UNION {{Image(w, h, w, h, p) : p \in Patterns(w * h)} :
           w \in 1..MaxW, h \in 1..MaxH}

\* none of the image's pixels is above the default threshold
Transparent(img) == \A i \in 1..Len(img.pat) : img.pat[i] <= DefaultAThresh

\* configurations with a vertical bias: VBIAS = "-0.10" and "0.10"
BiasConfigs ==
  { Config("dir", DefaultSize, DefaultPad, -10, FALSE),
    Config("dir", DefaultSize, DefaultPad, 10, FALSE) }

\* every grid under the default configuration, and the grids without
\* foreground under the biased ones too
InitPipeline ==
  /\ \E img \in Grids :
       /\ listing = <<Entry("in", "a", "png", "ok", "ok", img)>>
       /\ cfg \in {Default} \cup (IF Transparent(img) THEN BiasConfigs ELSE {})
  /\ proc = "walk"
  /\ InitLocals

NextPipeline ==
  \/ WalkYield \/ WalkEnd
  \/ RemoveBgReturns
  \/ ScanRow \/ AnalyzeReturns \/ Crop \/ Square \/ Write

SpecPipeline == InitPipeline /\ [][NextPipeline]_vars

\* processOne on the 1000 x 600 opaque photograph, default configuration.
InitScenario ==
  /\ cfg = Default
  /\ listing = <<Entry("in", "photo", "jpg", "ok", "ok", OpaqueRGB(1000, 600))>>
  /\ proc = "walk"
  /\ InitLocals

SpecScenario == InitScenario /\ [][NextPipeline]_vars

\* toSquareWebP alone, on the crop processOne hands it for a fully transparent
\* image of every size up to MaxCrop x MaxCrop (the whole image, no centroid).
SquareConfigs ==
  { Default,
    Config("dir", 1024, DefaultPad, DefaultVBias, FALSE),
    Config("dir", DefaultSize, 50, DefaultVBias, FALSE) }

InitSquare ==
  /\ cfg \in SquareConfigs
  /\ \E w \in 1..MaxCrop, h \in 1..MaxCrop :
       /\ file = Entry("in", "a", "png", "ok", "ok", Image(w, h, 1, 1, <<0>>))
       /\ noBg = file.img
       /\ acc = ScanStart(noBg)
       /\ y = h
       /\ crop = CropOf(Null, noBg)
  /\ result = Null /\ centroid = Null /\ placed = Null
  /\ pc = "square"
  /\ stages = <<"removeBackground", "findAlphaBBoxAndCentroid", "crop">>
  /\ proc = "walk" /\ listing = <<>>
  /\ n = 0 /\ log = <<>> /\ out = <<>>

NextSquare == Square

SpecSquare == InitSquare /\ [][NextSquare]_vars

(***************************************************************************)
(* Properties                                                              *)
(***************************************************************************)
Analyzed == pc \in {"crop", "square", "write"}

Pixels(img) == (0..(img.w - 1)) \X (0..(img.h - 1))

\* the pixels whose alpha is strictly greater than t
Above(img, t) == {p \in Pixels(img) : AlphaAt(img, p[1], p[2]) > t}

\* C1: when some pixel of the analysed image has alpha > ATHRESH, the box
\* (x0, y0, x1, y1) that findAlphaBBoxAndCentroid returns satisfies
\* 0 <= x0 < x1 <= w and 0 <= y0 < y1 <= h, contains every pixel with
\* alpha > ATHRESH, and each of its columns x0, x1 - 1 and rows y0, y1 - 1 holds
\* such a pixel.
C1_BoxIsMinimal ==
  (Analyzed /\ Above(noBg, cfg.ATHRESH) # {}) =>
     /\ result # Null
     /\ LET b == result.bbox
            fg == Above(noBg, cfg.ATHRESH)
        IN /\ 0 <= b[1] /\ b[1] < b[3] /\ b[3] <= noBg.w
           /\ 0 <= b[2] /\ b[2] < b[4] /\ b[4] <= noBg.h
           /\ \A p \in fg : /\ b[1] <= p[1] /\ p[1] < b[3]
                            /\ b[2] <= p[2] /\ p[2] < b[4]
           /\ \E p \in fg : p[1] = b[1]
           /\ \E p \in fg : p[1] = b[3] - 1
           /\ \E p \in fg : p[2] = b[2]
           /\ \E p \in fg : p[2] = b[4] - 1

\* C1's case: a box smaller than the image, with a pixel whose alpha is exactly
\* the threshold left outside it.
C1_Witness ==
  /\ Analyzed /\ result # Null
  /\ result.bbox[3] - result.bbox[1] < noBg.w
  /\ \E p \in Pixels(noBg) :
       /\ AlphaAt(noBg, p[1], p[2]) = cfg.ATHRESH
       /\ (p[1] < result.bbox[1] \/ p[1] >= result.bbox[3])

\* the sum over the pixels of S of alpha ("a"), alpha * x ("x") or alpha * y ("y")
RECURSIVE PixelSum(_, _, _)
PixelSum(img, S, k) ==
  IF S = {} THEN 0
  ELSE LET p == CHOOSE q \in S : TRUE
           alpha == AlphaAt(img, p[1], p[2])
       IN (IF k = "a" THEN alpha ELSE IF k = "x" THEN alpha * p[1] ELSE alpha * p[2])
          + PixelSum(img, S \ {p}, k)

Mean(img, S, k) == FDiv(FromInt(PixelSum(img, S, k)), FromInt(PixelSum(img, S, "a")))

\* C3: whenever findAlphaBBoxAndCentroid returns a result, its centroid is
\* (sum(alpha * x) / sum(alpha), sum(alpha * y) / sum(alpha)) over the pixels
\* above the threshold and lies in the box, x0 <= cx <= x1 - 1 and
\* y0 <= cy <= y1 - 1; and the crop-local centroid of processOne lies within the
\* crop, 0 <= cx - x0 <= width - 1 and 0 <= cy - y0 <= height - 1.
C3_CentroidInBox ==
  /\ (Analyzed /\ result # Null) =>
       /\ result.cx = Mean(noBg, Above(noBg, cfg.ATHRESH), "x")
       /\ result.cy = Mean(noBg, Above(noBg, cfg.ATHRESH), "y")
       /\ FLe(FromInt(result.bbox[1]), result.cx)
       /\ FLe(result.cx, FromInt(result.bbox[3] - 1))
       /\ FLe(FromInt(result.bbox[2]), result.cy)
       /\ FLe(result.cy, FromInt(result.bbox[4] - 1))
  /\ (pc \in {"square", "write"} /\ result # Null) =>
       /\ centroid # Null
       /\ FLe(Zero, centroid.cx) /\ FLe(centroid.cx, FromInt(crop.w - 1))
       /\ FLe(Zero, centroid.cy) /\ FLe(centroid.cy, FromInt(crop.h - 1))

\* C3's case: a centroid strictly inside a box more than one pixel wide, pulled
\* towards the more opaque side.
C3_Witness ==
  /\ pc = "square" /\ result # Null
  /\ result.bbox[3] - result.bbox[1] > 1
  /\ FLt(Zero, centroid.cx)
  /\ FLt(FMul(centroid.cx, FromInt(2)), FromInt(crop.w - 1))

\* floor(a / 2) and round(v * size / 100) in integers
HalfFloor(a) == a \div 2
ExpectedBias(c) == (2 * c.VBIAS * c.SIZE + 100) \div 200

\* C2 as stated: with no pixel above ATHRESH the analyzer returns null, the crop
\* is the whole image with no centroid, and the image is placed at
\* left = floor((SIZE - nw) / 2), top = floor((SIZE - nh) / 2 + bias).
C2_AsStated ==
  /\ (Analyzed /\ Above(noBg, cfg.ATHRESH) = {}) => result = Null
  /\ (pc \in {"square", "write"} /\ Above(noBg, cfg.ATHRESH) = {}) =>
       /\ crop = [w |-> noBg.w, h |-> noBg.h]
       /\ centroid = Null
  /\ (pc = "write" /\ Above(noBg, cfg.ATHRESH) = {}) =>
       /\ placed.branch = "geometric"
       /\ placed.left = HalfFloor(cfg.SIZE - placed.nw)
       /\ placed.top = HalfFloor(cfg.SIZE - placed.nh + 2 * ExpectedBias(cfg))
       /\ proc = "walk"

\* C2, amended: the same, with both offsets clamped at 0:
\* left = max(0, floor((SIZE - nw) / 2)), top = max(0, floor((SIZE - nh) / 2 + bias)).
C2_GeometricFallback ==
  /\ (Analyzed /\ Above(noBg, cfg.ATHRESH) = {}) => result = Null
  /\ (pc \in {"square", "write"} /\ Above(noBg, cfg.ATHRESH) = {}) =>
       /\ crop = [w |-> noBg.w, h |-> noBg.h]
       /\ centroid = Null
  /\ (pc = "write" /\ Above(noBg, cfg.ATHRESH) = {}) =>
       /\ placed.branch = "geometric"
       /\ placed.left = IntMax(0, HalfFloor(cfg.SIZE - placed.nw))
       /\ placed.top =
            IntMax(0, HalfFloor(cfg.SIZE - placed.nh + 2 * ExpectedBias(cfg)))
       /\ proc = "walk"

\* C2's case: an image with no foreground about to be written, under a negative
\* bias that would put it above the canvas.
C2_Witness ==
  /\ pc = "write" /\ Above(noBg, cfg.ATHRESH) = {}
  /\ \E p \in Pixels(noBg) : AlphaAt(noBg, p[1], p[2]) = cfg.ATHRESH
  /\ HalfFloor(cfg.SIZE - placed.nh + 2 * ExpectedBias(cfg)) < 0
  /\ placed.top = 0

\* C10: with vertical bias 0 and 0 <= padPct < 0.5, the rectangle at which the
\* resized image is composited lies inside the canvas, in both branches.
C10_InsideCanvas ==
  (pc = "write" /\ cfg.VBIAS = 0 /\ 0 <= cfg.PAD /\ cfg.PAD < 50) =>
     /\ 0 <= placed.left /\ placed.left + placed.nw <= cfg.SIZE
     /\ 0 <= placed.top /\ placed.top + placed.nh <= cfg.SIZE

\* C4 as stated: nw <= maxContent and nh <= maxContent, with equality to
\* maxContent on at least one axis.
C4_AsStated ==
  pc = "write" =>
     /\ FLe(FromInt(placed.nw), placed.maxContent)
     /\ FLe(FromInt(placed.nh), placed.maxContent)
     /\ \/ FromInt(placed.nw) = placed.maxContent
        \/ FromInt(placed.nh) = placed.maxContent

\* C4, amended: when maxContent >= 1, nw <= maxContent and nh <= maxContent, and
\* on at least one axis the resized dimension is floor(maxContent) or one less.
C4_FitsContent ==
  (pc = "write" /\ FLe(FromInt(1), placed.maxContent)) =>
     /\ FLe(FromInt(placed.nw), placed.maxContent)
     /\ FLe(FromInt(placed.nh), placed.maxContent)
     /\ \/ placed.nw >= Floor(placed.maxContent) - 1
        \/ placed.nh >= Floor(placed.maxContent) - 1

\* C4's case: a 21 x 21 crop under the default configuration, which comes out at
\* 1799 x 1799 although maxContent is 1800.
C4_Witness ==
  /\ pc = "write" /\ cfg = Default
  /\ crop = [w |-> 21, h |-> 21]
  /\ placed.maxContent = FromInt(1800)
  /\ placed.nw = 1799 /\ placed.nh = 1799

\* C8: the 1000 x 600 opaque image under the default configuration gets the box
\* (0, 0, 1000, 600), maxContent 1800, scale 1.8, resized dimensions 1800 x 1080,
\* and is placed by geometric centering at left = 100, top = 460.
C8_Scenario ==
  /\ (Analyzed /\ result # Null) => result.bbox = <<0, 0, 1000, 600>>
  /\ pc = "write" =>
       /\ placed.maxContent = FromInt(1800)
       /\ placed.scale = ParseFloat(18, 1)
       /\ placed.nw = 1800 /\ placed.nh = 1080
       /\ placed.branch = "geometric"
       /\ placed.left = 100 /\ placed.top = 460

Ended == proc \in {"done", "crashed", "exit1"}

\* an entry the walk yields and removeBgToRGBA can handle under this configuration
Processable(f) == MatchesExt(f) /\ f.fast = "ok"

\* C5: in batch mode the failure of one file does not abort the process, and
\* every later file that can be processed is processed and written: when the
\* process has ended, no file that could be processed is left unvisited.
C5_BatchSurvivesFailure ==
  (cfg.mode = "dir" /\ Ended) =>
     \A i \in DOMAIN listing : ~Processable(listing[i])

\* C6: with HQ on, a file whose high-quality call fails and whose default-tier
\* call succeeds is processed like any other: the failure is not propagated
\* (processOne rejects only for a file whose default tier fails), and the file
\* goes through smoothing, analysis and compositing up to the write.
C6_FallbackRecovers ==
  /\ pc \in {"dead", "throw"} => file.fast = "fail"
  /\ (cfg.HQ /\ file # Null /\ file.hq = "fail" /\ file.fast = "ok") =>
       /\ pc \in {"removeBg", "fallback", "smooth", "scan", "crop", "square", "write"}
       /\ proc \in {"walk", "url"}
       /\ pc = "write" =>
            stages = <<"removeBackground", "smoothAlpha",
                       "findAlphaBBoxAndCentroid", "crop", "composite", "encode">>

\* C6's case: such a file has come through the fallback and is about to be written.
C6_Witness ==
  /\ cfg.HQ /\ pc = "write"
  /\ file.hq = "fail" /\ file.fast = "ok"

\* C7: after a batch run in which every file was processed, the output directory
\* holds as many files as inputs were processed (n), and each input's output
\* is still its own.
C7_OneOutputPerInput ==
  (cfg.mode = "dir" /\ proc = "done") =>
     /\ Cardinality(DOMAIN out) = n
     /\ \A i \in DOMAIN log : out[log[i][2]] = log[i][1]

IsPrefix(s, t) == Len(s) <= Len(t) /\ s = SubSeq(t, 1, Len(s))

\* the order of the stages in high-quality mode, as claimed and as run
ClaimedOrder ==
  <<"removeBackground", "findAlphaBBoxAndCentroid", "smoothAlpha", "crop",
    "composite", "encode">>
RunOrder ==
  <<"removeBackground", "smoothAlpha", "findAlphaBBoxAndCentroid", "crop",
    "composite", "encode">>
WithoutSmoothing(order) == SelectSeq(order, LAMBDA st : st # "smoothAlpha")

\* C9 as stated: the stages run in the order remover, analyzer, smoother
\* (high-quality mode only), cropper, compositor, encoder.
C9_AsStated ==
  IsPrefix(stages, IF cfg.HQ THEN ClaimedOrder ELSE WithoutSmoothing(ClaimedOrder))

\* C9, amended: the stages run in the order remover, smoother (high-quality mode
\* only), analyzer, cropper, compositor, encoder; in high-quality mode the
\* analyzer and the cropper work on the smoothed (two-valued) alpha channel.
C9_StageOrder ==
  /\ IsPrefix(stages, IF cfg.HQ THEN RunOrder ELSE WithoutSmoothing(RunOrder))
  /\ (cfg.HQ /\ pc \in {"scan", "crop", "square", "write"}) =>
       \A i \in 1..Len(noBg.pat) : noBg.pat[i] \in {0, 255}

\* C9's case: a high-quality run that has gone through all six stages, on an
\* image whose alpha the smoother changed.
C9_Witness ==
  /\ cfg.HQ /\ pc = "write" /\ stages = RunOrder
  /\ noBg # ensureAlpha(file.img)
====
